---- MODULE Spec2Model ----
(***************************************************************************)
(* The scheduled contest pipeline of server/index.js: the four platform    *)
(* adapters and the bulk upsert (fetchAndStoreContests), the status        *)
(* lifecycle scan (updateContestStatuses), the solution finder             *)
(* (findYouTubeSolution), the one-shot backfill (backfillMissingSolutions) *)
(* and the start-up code that launches and schedules them.                 *)
(*                                                                         *)
(* Every `await` of the source is one step of the model: the jobs are      *)
(* async functions on one event loop, so they interleave exactly at their  *)
(* awaits.  The code that runs between two awaits is part of the step of   *)
(* the await it follows.                                                   *)
(***************************************************************************)
EXTENDS Integers, Sequences, FiniteSets, TLC

\* ------------------------------------------------------------- bounds
\* The clock advances in whole seconds, at most this many of them.
MaxTime == 1

\* ---------------------------------------------------------- constants
\* new Date(c.startTimeSeconds * 1000): seconds to milliseconds.
MsPerSecond == 1000
\* The time value of an Invalid Date (new Date(undefined * 1000)); every valid
\* time of the model is a multiple of MsPerSecond.
NaN == -1

Null == "null"
TrustedPlatforms == {"Codeforces", "LeetCode"}

\* The runs of each recurring job that Spec follows: one at a time, the next
\* one started when the previous one has returned.  OverlapSpec, below, follows
\* two of each.
LRuns == {1}
FRuns == {1}

\* ---------------------------------------------------------- formatDuration
\* A text is the sequence of its characters.
DigitChars == <<"0", "1", "2", "3", "4", "5", "6", "7", "8", "9">>
RECURSIVE Digits(_)
Digits(n) ==
    IF n < 10 THEN <<DigitChars[n + 1]>>
    ELSE Digits(n \div 10) \o <<DigitChars[(n % 10) + 1]>>

\* String.prototype.trim on a text whose only white space is " ".
RECURSIVE TrimStart(_)
TrimStart(t) == IF t # <<>> /\ Head(t) = " " THEN TrimStart(Tail(t)) ELSE t
RECURSIVE TrimEnd(_)
TrimEnd(t) ==
    IF t # <<>> /\ t[Len(t)] = " " THEN TrimEnd(SubSeq(t, 1, Len(t) - 1)) ELSE t
Trim(t) == TrimEnd(TrimStart(t))

\* Math.floor(n / k) and Math.round(n / k) for n >= 0 and k > 0; Math.round
\* takes a half up.
FloorDiv(n, k) == n \div k
RoundDiv(n, k) == (2 * n + k) \div (2 * k)

SecondsPerHour == 3600
HoursPerDay == 24
SecondsPerMinute == 60

\* The argument of a call: a number, or nothing (undefined).
Arg(present, value) == [present |-> present, value |-> value]

\* formatDuration(durationSeconds), for an integer or an absent argument.
\* totalHours is durationSeconds / 3600, so totalHours >= 24 compares the
\* seconds with 24 * 3600 and totalHours % 24 is the seconds left in the day
\* over 3600.
FormatDuration(arg) ==
    IF ~arg.present \/ arg.value = 0 \/ arg.value <= 0 THEN <<>>
    ELSE LET durationSeconds == arg.value
             secondsPerDay == HoursPerDay * SecondsPerHour
         IN  IF durationSeconds >= secondsPerDay
             THEN LET days == FloorDiv(durationSeconds, secondsPerDay)
                      hours == RoundDiv(durationSeconds % secondsPerDay, SecondsPerHour)
                  IN  Digits(days) \o <<"d">>
                         \o (IF hours > 0 THEN <<" ">> \o Digits(hours) \o <<"h">> ELSE <<>>)
             ELSE LET hours == FloorDiv(durationSeconds, SecondsPerHour)
                      minutes == RoundDiv(durationSeconds % SecondsPerHour, SecondsPerMinute)
                  IN  Trim((IF hours > 0 THEN Digits(hours) \o <<"h">> ELSE <<>>)
                         \o (IF minutes > 0 THEN <<" ">> \o Digits(minutes) \o <<"m">> ELSE <<>>))

\* No call of formatDuration yet, and a call with its result.
NoCall == [called |-> FALSE, arg |-> Arg(FALSE, 0), result |-> <<>>]
Call(arg) == [called |-> TRUE, arg |-> arg, result |-> FormatDuration(arg)]

\* -------------------------------------------------- the contest record
\* The url an adapter gives a contest.  Every entry of the catalogue has its
\* name as its id and its slug, and a HackerEarth event's url ends in its title.
UrlOf(platform, key) ==
    CASE platform = "Codeforces" -> <<"https://codeforces.com/contests/", key>>
      [] platform = "LeetCode" -> <<"https://leetcode.com/contest/", key>>
      [] platform = "TopCoder" -> <<"https://www.topcoder.com/challenges/", key>>
      [] OTHER -> <<"https://www.hackerearth.com/challenges/", key>>

\* The duration text of a contest that has valid times: formatDuration of the
\* seconds between them.
DurationOf(startTime, endTime) ==
    IF startTime = NaN \/ endTime = NaN THEN <<>>
    ELSE FormatDuration(Arg(TRUE, (endTime - startTime) \div MsPerSecond))

\* contestSchema; status defaults to Upcoming and solutionUrl to null.  The
\* duration and the url are those the record's adapter gave it.
Contest(name, platform, startTime, endTime, status, solutionUrl) ==
    [name |-> name, platform |-> platform,
     duration |-> DurationOf(startTime, endTime),
     startTime |-> startTime, endTime |-> endTime, status |-> status,
     solutionUrl |-> solutionUrl, url |-> UrlOf(platform, name)]

\* ------------------------------------------------- upstream responses
\* One Codeforces contest.list entry; startTimeSeconds may be absent.
CfItem(name, hasStart, startTimeSeconds, durationSeconds, phase) ==
    [name |-> name, hasStart |-> hasStart, startTimeSeconds |-> startTimeSeconds,
     durationSeconds |-> durationSeconds, phase |-> phase]
CfX == CfItem("X", FALSE, 0, 1, "BEFORE")
CfF == CfItem("F", TRUE, -4, 1, "FINISHED")

\* One LeetCode upcomingContests entry.
LcItem(title, startTime, duration) ==
    [title |-> title, startTime |-> startTime, duration |-> duration]
LcL == LcItem("L", 5, 1)

\* One HackerEarth event; start_utc_tz and end_utc_tz as the times they parse to.
HeItem(title, status, start, end) ==
    [title |-> title, status |-> status, start_utc_tz |-> start, end_utc_tz |-> end]
HeB == HeItem("B", "UPCOMING", 0, 1000)
HeO == HeItem("O", "ONGOING", -4000, 6000)

\* One TopCoder challenge; startDate and endDate as the times they parse to.
TcItem(name, startDate, endDate) ==
    [name |-> name, startDate |-> startDate, endDate |-> endDate]
TcT == TcItem("T", 0, 6000)

\* What axios can give an adapter: an error (network, HTTP status), or a body.
Throw == [kind |-> "throw"]
Body(ok, items) == [kind |-> "body", ok |-> ok, items |-> items]

CfResponses == {Throw, Body(FALSE, <<>>), Body(TRUE, <<CfF>>), Body(TRUE, <<CfF, CfX>>)}
LcResponses == {Throw, Body(FALSE, <<>>), Body(TRUE, <<LcL>>), Body(TRUE, <<LcL, LcL>>)}
HeResponses == {Throw, Body(FALSE, <<>>), Body(TRUE, <<HeB, HeO>>)}
TcResponses == {Throw, Body(FALSE, <<>>), Body(TRUE, <<TcT>>)}

\* --------------------------------------------------------- pure helpers
RECURSIVE MapSeq(_, _)
MapSeq(F(_), s) == IF s = <<>> THEN <<>> ELSE <<F(Head(s))>> \o MapSeq(F, Tail(s))

\* new Date(seconds * 1000); an absent field gives an Invalid Date.
DateOfSeconds(present, seconds) == IF present THEN seconds * MsPerSecond ELSE NaN
\* new Date(startSeconds * 1000 + durationSeconds * 1000)
EndOfSeconds(present, seconds, duration) ==
    IF present THEN seconds * MsPerSecond + duration * MsPerSecond ELSE NaN

\* The four adapters' normalisation (the .filter(...).map(...) chains).
CfBefore(c) == c.phase = "BEFORE"
CfMap(c) ==
    [Contest(c.name, "Codeforces", DateOfSeconds(c.hasStart, c.startTimeSeconds),
             EndOfSeconds(c.hasStart, c.startTimeSeconds, c.durationSeconds),
             "Upcoming", Null)
       EXCEPT !.duration = FormatDuration(Arg(TRUE, c.durationSeconds)),
              !.url = UrlOf("Codeforces", c.name)]
CfContests(items) == MapSeq(CfMap, SelectSeq(items, CfBefore))

LcMap(c) ==
    [Contest(c.title, "LeetCode", DateOfSeconds(TRUE, c.startTime),
             EndOfSeconds(TRUE, c.startTime, c.duration), "Upcoming", Null)
       EXCEPT !.duration = FormatDuration(Arg(TRUE, c.duration)),
              !.url = UrlOf("LeetCode", c.title)]
LcContests(items) == MapSeq(LcMap, items)

HeUpcoming(c) == c.status = "UPCOMING"
HeMap(c) ==
    [Contest(c.title, "HackerEarth", c.start_utc_tz, c.end_utc_tz, "Upcoming", Null)
       EXCEPT !.duration = DurationOf(c.start_utc_tz, c.end_utc_tz),
              !.url = UrlOf("HackerEarth", c.title)]
HeContests(items) == MapSeq(HeMap, SelectSeq(items, HeUpcoming))

TcMap(c) ==
    [Contest(c.name, "TopCoder", c.startDate, c.endDate, "Upcoming", Null)
       EXCEPT !.duration = DurationOf(c.startDate, c.endDate),
              !.url = UrlOf("TopCoder", c.name)]
TcContests(items, clock) ==
    LET TcFuture(c) == c.startDate # NaN /\ c.startDate > clock
    IN  MapSeq(TcMap, SelectSeq(items, TcFuture))

\* ------------------------------------------------------------ the store
\* The updateOne filter { name: c.name, startTime: c.startTime }.
SameIdentity(r, c) == r.name = c.name /\ r.startTime = c.startTime

Matches(s, c) == {i \in 1..Len(s) : SameIdentity(s[i], c)}

\* An updateOne that ignored its filter would insert every time.
InsertOne(s, c) ==
    Append(s, [c EXCEPT !.solutionUrl = Null])

\* An upsert done as a delete of the matching records and an insert.
ReinsertOne(s, c) ==
    LET NotSame(r) == ~SameIdentity(r, c)
    IN  Append(SelectSeq(s, NotSame), [c EXCEPT !.solutionUrl = Null])

\* An upsert that replaces the matching document by the adapter's contest.
ReplaceOne(s, c) ==
    IF Matches(s, c) # {}
    THEN LET i == CHOOSE k \in Matches(s, c) : \A j \in Matches(s, c) : k <= j
         IN  [s EXCEPT ![i] = [c EXCEPT !.solutionUrl = Null]]
    ELSE Append(s, [c EXCEPT !.solutionUrl = Null])

\* One updateOne with upsert: $set of the adapter's fields on the first match,
\* or an insert with the schema's default solutionUrl.
UpsertOne(s, c) ==
    IF Matches(s, c) # {}
    THEN LET i == CHOOSE k \in Matches(s, c) : \A j \in Matches(s, c) : k <= j
         IN  [s EXCEPT ![i] = [c EXCEPT !.solutionUrl = s[i].solutionUrl]]
    ELSE Append(s, [c EXCEPT !.solutionUrl = Null])

RECURSIVE UpsertAll(_, _)
UpsertAll(s, batch) ==
    IF batch = <<>> THEN s ELSE UpsertAll(UpsertOne(s, Head(batch)), Tail(batch))

\* Mongoose casts every operation before it sends any: an Invalid Date in a
\* filter or a $set is a CastError and the whole bulkWrite rejects.
Castable(batch) ==
    \A i \in 1..Len(batch) : batch[i].startTime # NaN /\ batch[i].endTime # NaN

\* ---------------------------------------------------- the lifecycle scan
\* The comparison with endTime made strict: a contest is not Past at the instant
\* it ends.
TargetStatusAfterEnd(clock, startTime, endTime) ==
    IF clock > endTime THEN "Past"
    ELSE IF clock >= startTime /\ clock < endTime THEN "On-going"
    ELSE "Upcoming"

\* if (now >= contest.endTime) ... else if (now >= contest.startTime && now < contest.endTime)
TargetStatus(clock, startTime, endTime) ==
    IF clock >= endTime THEN "Past"
    ELSE IF clock >= startTime /\ clock < endTime THEN "On-going"
    ELSE "Upcoming"

\* A document a find returned: the stored fields and the record's _id.
Doc(s, i) == [id |-> i, name |-> s[i].name, platform |-> s[i].platform,
              startTime |-> s[i].startTime, endTime |-> s[i].endTime,
              status |-> s[i].status, solutionUrl |-> s[i].solutionUrl]

RECURSIVE DocsFrom(_, _, _)
DocsFrom(s, Sel(_), i) ==
    IF i > Len(s) THEN <<>>
    ELSE (IF Sel(s[i]) THEN <<Doc(s, i)>> ELSE <<>>) \o DocsFrom(s, Sel, i + 1)

\* A find with no filter on status.
AnyStatus(r) == TRUE

\* Contest.find({ status: { $ne: 'Past' } })
NotPast(r) == r.status # "Past"
ContestsToCheck(s) == DocsFrom(s, NotPast, 1)

\* The backfill filter without its platform condition.
AnyPlatformMissingSolution(r) == r.status = "Past" /\ r.solutionUrl = Null

\* Contest.find({ platform: { $in: [...] }, status: 'Past', solutionUrl: null })
MissingSolution(r) ==
    r.platform \in TrustedPlatforms /\ r.status = "Past" /\ r.solutionUrl = Null
ContestsToBackfill(s) == DocsFrom(s, MissingSolution, 1)

\* ------------------------------------------------------------ the account
\* userSchema: the bookmarks (an array of contest _ids) and the OAuth tokens.
User(savedContests, accessToken, refreshToken, tokenExpires) ==
    [savedContests |-> savedContests, accessToken |-> accessToken,
     refreshToken |-> refreshToken, tokenExpires |-> tokenExpires]

\* An account just after its first login: nothing saved, and an access token
\* that lasts beyond the times of the model.
FarFuture == 3600 * MsPerSecond
FreshUser == User(<<>>, "access-1", "refresh-1", FarFuture)

\* An HTTP response: route, status and JSON body (its message, or the list of
\* contests); cause and about are history, the step of the handler that ended
\* it and the :id of the request (0 when the route has none).
Reply(route, status, message, contests, cause) ==
    [route |-> route, status |-> status, message |-> message,
     contests |-> contests, cause |-> cause, about |-> 0]
About(id, r) == [r EXCEPT !.about = id]
NoReply == Reply("none", 0, "", <<>>, "none")

\* OAuth2Client.isTokenExpiring(): an expiry date within the client's eager
\* refresh threshold of five minutes; no expiry date never expires.
EagerRefreshThreshold == 300 * MsPerSecond
IsTokenExpiring(credentials, clock) ==
    credentials.expiry_date # 0
       /\ credentials.expiry_date <= clock + EagerRefreshThreshold

\* oauth2Client.setCredentials({ access_token, refresh_token, expiry_date })
Credentials(u) ==
    [access_token |-> u.accessToken, refresh_token |-> u.refreshToken,
     expiry_date |-> u.tokenExpires]
\* What a successful refreshAccessToken() returns.
Refreshed(u, clock) ==
    [access_token |-> "access-2", refresh_token |-> u.refreshToken,
     expiry_date |-> clock + FarFuture]

\* The page's state: user (logged in or null), allContests, the notification,
\* and, as history, the last toggle: the contest, the new value, the list
\* before it, how the request ended ("answered" or "failed") and the status of
\* the answer.
Toggle(id, saved, before, ended, status) ==
    [id |-> id, saved |-> saved, before |-> before, ended |-> ended, status |-> status]
NoToggle == Toggle(0, FALSE, <<>>, "none", 0)
Client(hasUser, allContests, notification, toggle) ==
    [user |-> hasUser, allContests |-> allContests,
     notification |-> notification, toggle |-> toggle]
NoClient == Client(FALSE, <<>>, "none", NoToggle)

\* ---------------------------------------------------------------- state
VARIABLES
    phase,   \* "connecting", "running" or "exited"
    now,     \* the wall clock, in milliseconds
    store,   \* the contests collection, in insertion (_id) order
    fetch,   \* each fetchAndStoreContests run: pc and allUpcomingContests
    life,    \* each updateContestStatuses run: pc, now, the documents left
    back,    \* the backfillMissingSolutions run
    missed,  \* history: the ids whose look-up in a scan gave no video
    format,  \* the last call of formatDuration: its argument and its result
    user,    \* the User document of the one account
    calendar,\* the events created in the account's Google calendar
    reply,   \* the last HTTP response of an API route
    client   \* the browser page: its user, its contest list, its last toggle

vars ==
    <<phase, now, store, fetch, life, back, missed, format, user, calendar, reply, client>>

\* No request has been served and the account is fresh.
ApiIdle ==
    user = FreshUser /\ calendar = <<>> /\ reply = NoReply /\ client = NoClient

\* A run that is not in flight is idle and holds nothing.
FetchRun(pc, batch) == [pc |-> pc, batch |-> batch]
\* todo: the documents the loop has not finished, the first one in hand.
\* seen, past, calls and clean record the run for the properties below: the
\* documents as the find returned them, the ids stored Past at that moment, the
\* ids findYouTubeSolution was called for, and whether no other job has written
\* the collection since the find.
LifeRun(pc, clock, todo, seen, past, calls, clean) ==
    [pc |-> pc, now |-> clock, todo |-> todo, seen |-> seen, past |-> past,
     calls |-> calls, clean |-> clean]
BackRun(pc, todo, seen, calls) ==
    [pc |-> pc, todo |-> todo, seen |-> seen, calls |-> calls]

IdleFetch == FetchRun("idle", <<>>)
IdleLife == LifeRun("idle", 0, <<>>, <<>>, {}, <<>>, TRUE)
IdleBack == BackRun("idle", <<>>, <<>>, <<>>)

Free(pc) == pc = "idle"
InFlight(pc) == ~Free(pc)
FirstFree(runs, st) ==
    CHOOSE r \in runs : Free(st[r].pc) /\ \A q \in runs : Free(st[q].pc) => r <= q

\* What an earlier life of the process can have left in the collection.
OldStore ==
    << Contest("P1", "Codeforces", -4000, -3000, "Past", Null),
       Contest("P2", "Codeforces", -4000, -3000, "Past", "v1"),
       Contest("P3", "HackerEarth", -4000, -3000, "Past", Null),
       Contest("P4", "LeetCode", -4000, -3000, "Past", Null) >>
DowntimeStore ==
    << Contest("D", "Codeforces", -2000, -1000, "Upcoming", Null),
       Contest("B", "HackerEarth", 0, 1000, "Upcoming", Null) >>
InitStores == {<<>>, OldStore, DowntimeStore}

Init ==
    /\ phase = "connecting"
    /\ now = 0
    /\ store \in InitStores
    /\ fetch = [r \in FRuns |-> IdleFetch]
    /\ life = [r \in LRuns |-> IdleLife]
    /\ back = IdleBack
    /\ missed = {}
    /\ format = NoCall
    /\ ApiIdle

\* ------------------------------------------------------- start-up, clock
StartFetch(f) == [f EXCEPT ![FirstFree(DOMAIN f, f)] = FetchRun("cf", <<>>)]
\* const now = new Date(), then the find is awaited.
StartLife(l, clock) ==
    [l EXCEPT ![FirstFree(DOMAIN l, l)] = LifeRun("find", clock, <<>>, <<>>, {}, <<>>, TRUE)]

\* A start-up that did not call backfillMissingSolutions.
ConnectOkWithoutBackfill ==
    /\ phase = "connecting"
    /\ phase' = "running"
    /\ fetch' = StartFetch(fetch)
    /\ life' = StartLife(life, now)
    /\ UNCHANGED <<client, user, calendar, reply, format, missed, now, store, back>>

\* mongoose.connect(...).then: listen, start the three jobs, schedule two of them.
ConnectOk ==
    /\ phase = "connecting"
    /\ phase' = "running"
    /\ fetch' = StartFetch(fetch)
    /\ life' = StartLife(life, now)
    /\ back' = BackRun("find", <<>>, <<>>, <<>>)
    /\ UNCHANGED <<client, user, calendar, reply, format, missed, now, store>>

\* A connection failure that was logged while a fetch cycle was started anyway.
ConnectFailThenFetch ==
    /\ phase = "connecting"
    /\ phase' = "exited"
    /\ fetch' = StartFetch(fetch)
    /\ UNCHANGED <<client, user, calendar, reply, format, missed, now, store, life, back>>

\* mongoose.connect(...).catch: process.exit(1).
ConnectFail ==
    /\ phase = "connecting"
    /\ phase' = "exited"
    /\ UNCHANGED <<client, user, calendar, reply, format, missed, now, store, fetch, life, back>>

Tick ==
    /\ now < MaxTime * MsPerSecond
    /\ now' = now + MsPerSecond
    /\ UNCHANGED <<client, user, calendar, reply, format, missed, phase, store, fetch, life, back>>

\* schedule.scheduleJob('0 * * * *', fetchAndStoreContests)
CronFetch ==
    /\ phase = "running"
    /\ \E r \in DOMAIN fetch : Free(fetch[r].pc)
    /\ fetch' = StartFetch(fetch)
    /\ UNCHANGED <<client, user, calendar, reply, format, missed, phase, now, store, life, back>>

\* schedule.scheduleJob('*/5 * * * *', updateContestStatuses)
CronScan ==
    /\ phase = "running"
    /\ \E r \in DOMAIN life : Free(life[r].pc)
    /\ life' = StartLife(life, now)
    /\ UNCHANGED <<client, user, calendar, reply, format, missed, phase, now, store, fetch, back>>

\* Another job wrote the collection: the scans in flight are no longer alone.
Disturbed(l, writer) ==
    [q \in DOMAIN l |-> IF q # writer /\ InFlight(l[q].pc)
                     THEN [l[q] EXCEPT !.clean = FALSE] ELSE l[q]]

\* ----------------------------------------------------- fetchAndStoreContests
\* An adapter's try block: push the mapped contests, or push nothing.
Adapted(resp, contests) ==
    IF resp.kind = "body" /\ resp.ok THEN contests ELSE <<>>

FetchCodeforces(r) ==
    /\ fetch[r].pc = "cf"
    /\ \E resp \in CfResponses :
         fetch' = [fetch EXCEPT ![r] =
            FetchRun("lc", @.batch \o Adapted(resp, CfContests(resp.items)))]
    /\ UNCHANGED <<client, user, calendar, reply, format, missed, phase, now, store, life, back>>

\* The LeetCode adapter, given what the upstream may answer.
FetchLeetCodeFrom(r, responses) ==
    /\ fetch[r].pc = "lc"
    /\ \E resp \in responses :
         fetch' = [fetch EXCEPT ![r] =
            FetchRun("he", @.batch \o Adapted(resp, LcContests(resp.items)))]
    /\ UNCHANGED <<client, user, calendar, reply, format, missed, phase, now, store, life, back>>

FetchLeetCode(r) == FetchLeetCodeFrom(r, LcResponses)

\* An adapter that writes its contests as soon as it has them.
FetchHackerEarthThenWrite(r) ==
    /\ fetch[r].pc = "he"
    /\ \E resp \in HeResponses :
         /\ fetch' = [fetch EXCEPT ![r] = FetchRun("tc", @.batch)]
         /\ store' = UpsertAll(store, Adapted(resp, HeContests(resp.items)))
    /\ UNCHANGED <<client, user, calendar, reply, format, missed, phase, now, life, back>>

FetchHackerEarth(r) ==
    /\ fetch[r].pc = "he"
    /\ \E resp \in HeResponses :
         fetch' = [fetch EXCEPT ![r] =
            FetchRun("tc", @.batch \o Adapted(resp, HeContests(resp.items)))]
    /\ UNCHANGED <<client, user, calendar, reply, format, missed, phase, now, store, life, back>>

\* The last adapter, then `if (allUpcomingContests.length > 0)`.
FetchTopCoder(r) ==
    /\ fetch[r].pc = "tc"
    /\ \E resp \in TcResponses :
         LET batch == fetch[r].batch \o Adapted(resp, TcContests(resp.items, now))
         IN  fetch' = [fetch EXCEPT ![r] =
                IF batch = <<>> THEN IdleFetch ELSE FetchRun("bulk", batch)]
    /\ UNCHANGED <<client, user, calendar, reply, format, missed, phase, now, store, life, back>>

\* await Contest.bulkWrite(bulkOps): ordered, outside every try block.  It
\* rejects on a cast error before any write, or on a write error after the
\* operations that came before it.
BulkWrite(r) ==
    /\ fetch[r].pc = "bulk"
    /\ \/ /\ Castable(fetch[r].batch)
          /\ store' = UpsertAll(store, fetch[r].batch)
          /\ fetch' = [fetch EXCEPT ![r] = IdleFetch]
       \/ /\ ~Castable(fetch[r].batch)
          /\ store' = store
          /\ fetch' = [fetch EXCEPT ![r] = IdleFetch]
       \/ /\ Castable(fetch[r].batch)
          /\ \E k \in 0..(Len(fetch[r].batch) - 1) :
                store' = UpsertAll(store, SubSeq(fetch[r].batch, 1, k))
          /\ fetch' = [fetch EXCEPT ![r] = IdleFetch]
    /\ life' = IF store' # store THEN Disturbed(life, 0) ELSE life
    /\ UNCHANGED <<client, user, calendar, reply, format, missed, phase, now, back>>

\* ------------------------------------------------------ findYouTubeSolution
\* What axios.get gives the finder: a body with items, or an error that has a
\* response (with or without the API's JSON error body) or has none.
YtItems(ids) == [kind |-> "items", ids |-> ids, response |-> TRUE, json |-> TRUE]
YtError(response, json) == [kind |-> "error", ids |-> <<>>, response |-> response, json |-> json]
YtResponses == {YtItems(<<>>), YtItems(<<"v1">>), YtItems(<<"v2", "v1">>),
                YtError(FALSE, FALSE), YtError(TRUE, TRUE), YtError(TRUE, FALSE)}

\* The value findYouTubeSolution resolves to, or "raise" when its catch block
\* itself throws reading error.response.data.error.message.
Raise == "raise"
FindYouTubeSolution(resp) ==
    IF resp.kind = "items"
    THEN IF Len(resp.ids) > 0 THEN resp.ids[1] ELSE Null
    ELSE IF resp.response /\ ~resp.json THEN Raise ELSE Null

\* ---------------------------------------------------- updateContestStatuses
NewStatus(clock, doc) == TargetStatus(clock, doc.startTime, doc.endTime)
StatusChanges(clock, doc) == NewStatus(clock, doc) # doc.status
\* if (newStatus === 'Past' && !contest.solutionUrl)
WantsLookup(clock, doc) == NewStatus(clock, doc) = "Past" /\ doc.solutionUrl = Null

\* The loop runs without awaiting over the documents that need neither a save
\* nor a lookup.
RECURSIVE SkipSettled(_, _)
SkipSettled(clock, docs) ==
    IF docs = <<>> THEN <<>>
    ELSE IF StatusChanges(clock, Head(docs)) \/ WantsLookup(clock, Head(docs)) THEN docs
    ELSE SkipSettled(clock, Tail(docs))

\* The run after an await, up to its next await: save the status, call the
\* finder, or return.
LifeResume(run, docs) ==
    LET left == SkipSettled(run.now, docs)
    IN  IF left = <<>> THEN IdleLife
        ELSE [run EXCEPT !.todo = left,
                         !.pc = IF StatusChanges(run.now, Head(left)) THEN "status" ELSE "lookup"]

\* After the status of the document in hand is saved.
LifeAfterStatus(run) ==
    LET doc == [Head(run.todo) EXCEPT !.status = NewStatus(run.now, Head(run.todo))]
    IN  IF WantsLookup(run.now, doc)
        THEN [run EXCEPT !.todo = <<doc>> \o Tail(run.todo), !.pc = "lookup"]
        ELSE LifeResume(run, Tail(run.todo))

\* await Contest.find({ status: { $ne: 'Past' } })
LifeFind(r) ==
    /\ life[r].pc = "find"
    /\ LET docs == ContestsToCheck(store)
           read == [life[r] EXCEPT !.seen = docs,
                       !.past = {i \in 1..Len(store) : store[i].status = "Past"},
                       !.clean = TRUE]
       IN  life' = [life EXCEPT ![r] = LifeResume(read, docs)]
    /\ UNCHANGED <<client, user, calendar, reply, format, missed, phase, now, store, fetch, back>>

\* A save of the status that also moves the record's end time to the time of
\* the scan.
LifeSaveStatusAndEndTime(r) ==
    /\ life[r].pc = "status"
    /\ LET doc == Head(life[r].todo)
       IN  /\ store' = [store EXCEPT ![doc.id].status = NewStatus(life[r].now, doc),
                                      ![doc.id].endTime = life[r].now]
           /\ life' = [Disturbed(life, r) EXCEPT ![r] = LifeAfterStatus(life[r])]
    /\ UNCHANGED <<client, user, calendar, reply, format, missed, phase, now, fetch, back>>

\* contest.status = newStatus; await contest.save()
LifeSaveStatus(r) ==
    /\ life[r].pc = "status"
    /\ LET doc == Head(life[r].todo)
       IN  \/ /\ store' = [store EXCEPT ![doc.id].status = NewStatus(life[r].now, doc)]
              /\ life' = [Disturbed(life, r) EXCEPT ![r] = LifeAfterStatus(life[r])]
           \/ /\ store' = store
              /\ life' = [life EXCEPT ![r] = IdleLife]
    /\ UNCHANGED <<client, user, calendar, reply, format, missed, phase, now, fetch, back>>

\* const videoId = await findYouTubeSolution(...)
LifeLookup(r) ==
    /\ life[r].pc = "lookup"
    /\ \E resp \in YtResponses :
         LET doc == Head(life[r].todo)
             videoId == FindYouTubeSolution(resp)
             called == [life[r] EXCEPT !.calls = Append(@, doc.id)]
         IN  /\ life' = [life EXCEPT ![r] =
                IF videoId = Raise THEN IdleLife
                ELSE IF videoId # Null
                THEN [called EXCEPT !.pc = "solution",
                        !.todo = <<[doc EXCEPT !.solutionUrl = videoId]>> \o Tail(@)]
                ELSE LifeResume(called, Tail(called.todo))]
             /\ missed' = IF videoId \in {Null, Raise}
                           THEN missed \cup {doc.id} ELSE missed
    /\ UNCHANGED <<client, user, calendar, reply, format, phase, now, store, fetch, back>>

\* contest.solutionUrl = videoId; await contest.save()
LifeSaveSolution(r) ==
    /\ life[r].pc = "solution"
    /\ LET doc == Head(life[r].todo)
       IN  \/ /\ store' = [store EXCEPT ![doc.id].solutionUrl = doc.solutionUrl]
              /\ life' = [Disturbed(life, r) EXCEPT ![r] = LifeResume(life[r], Tail(life[r].todo))]
           \/ /\ store' = store
              /\ life' = [life EXCEPT ![r] = IdleLife]
    /\ UNCHANGED <<client, user, calendar, reply, format, missed, phase, now, fetch, back>>

\* ------------------------------------------------- backfillMissingSolutions
BackResume(run, docs) ==
    IF docs = <<>> THEN IdleBack ELSE [run EXCEPT !.todo = docs, !.pc = "lookup"]

\* await Contest.find({ platform: ..., status: 'Past', solutionUrl: null })
BackFind ==
    /\ back.pc = "find"
    /\ LET docs == ContestsToBackfill(store)
       IN  back' = BackResume([back EXCEPT !.seen = docs], docs)
    /\ UNCHANGED <<client, user, calendar, reply, format, missed, phase, now, store, fetch, life>>

\* const videoId = await findYouTubeSolution(...)
BackLookup ==
    /\ back.pc = "lookup"
    /\ \E resp \in YtResponses :
         LET doc == Head(back.todo)
             videoId == FindYouTubeSolution(resp)
             called == [back EXCEPT !.calls = Append(@, doc.id)]
         IN  back' = IF videoId = Raise THEN IdleBack
                     ELSE IF videoId # Null
                     THEN [called EXCEPT !.pc = "solution",
                             !.todo = <<[doc EXCEPT !.solutionUrl = videoId]>> \o Tail(@)]
                     ELSE BackResume(called, Tail(called.todo))
    /\ UNCHANGED <<client, user, calendar, reply, format, missed, phase, now, store, fetch, life>>

\* contest.solutionUrl = videoId; await contest.save()
BackSaveSolution ==
    /\ back.pc = "solution"
    /\ LET doc == Head(back.todo)
       IN  \/ /\ store' = [store EXCEPT ![doc.id].solutionUrl = doc.solutionUrl]
              /\ back' = BackResume(back, Tail(back.todo))
              /\ life' = Disturbed(life, 0)
           \/ /\ store' = store
              /\ back' = IdleBack
              /\ life' = life
    /\ UNCHANGED <<client, user, calendar, reply, format, missed, phase, now, fetch>>

Next ==
    \/ ConnectOk
    \/ ConnectFail
    \/ Tick
    \/ CronFetch
    \/ CronScan
    \/ \E r \in DOMAIN fetch : FetchCodeforces(r)
    \/ \E r \in DOMAIN fetch : FetchLeetCode(r)
    \/ \E r \in DOMAIN fetch : FetchHackerEarth(r)
    \/ \E r \in DOMAIN fetch : FetchTopCoder(r)
    \/ \E r \in DOMAIN fetch : BulkWrite(r)
    \/ \E r \in DOMAIN life : LifeFind(r)
    \/ \E r \in DOMAIN life : LifeSaveStatus(r)
    \/ \E r \in DOMAIN life : LifeLookup(r)
    \/ \E r \in DOMAIN life : LifeSaveSolution(r)
    \/ BackFind
    \/ BackLookup
    \/ BackSaveSolution

Spec == Init /\ [][Next]_vars

\* The event loop runs every continuation that is ready, the scheduler keeps
\* firing both recurring jobs, and time passes.
FetchStep == \E r \in DOMAIN fetch : FetchCodeforces(r) \/ FetchLeetCode(r) \/ FetchHackerEarth(r)
                                \/ FetchTopCoder(r) \/ BulkWrite(r)
LifeStep == \E r \in DOMAIN life : LifeFind(r) \/ LifeSaveStatus(r) \/ LifeLookup(r)
                               \/ LifeSaveSolution(r)
BackStep == BackFind \/ BackLookup \/ BackSaveSolution
Fairness ==
    /\ WF_vars(ConnectOk \/ ConnectFail)
    /\ WF_vars(Tick)
    /\ WF_vars(CronFetch)
    /\ WF_vars(CronScan)
    /\ WF_vars(FetchStep)
    /\ WF_vars(LifeStep)
    /\ WF_vars(BackStep)
FairSpec == Init /\ [][Next]_vars /\ Fairness

\* ================================================================ claims
\* C1: a stored solutionUrl that is not null is never given another value, by
\* any step of any job, however the scan, the backfill and the fetch
\* interleave.
C1_SolutionUrlWrittenOnce ==
    [][\A i \in 1..Len(store) :
          store[i].solutionUrl # Null => store'[i].solutionUrl = store[i].solutionUrl]_vars

\* A backfill pass and a scan have both called the finder for the same
\* contest while its stored solutionUrl was null.
C1_BothLookedUp ==
    /\ back.pc = "solution"
    /\ \E r \in DOMAIN life :
          /\ life[r].pc = "solution"
          /\ Head(life[r].todo).id = Head(back.todo).id
          /\ Head(life[r].todo).solutionUrl # Head(back.todo).solutionUrl

\* C2: a stored status of Past never changes again, whichever of the upsert,
\* the scan and the backfill takes the step.
C2_PastIsTerminal ==
    [][\A i \in 1..Len(store) :
          store[i].status = "Past" => store'[i].status = "Past"]_vars

\* A fetch run is about to upsert a contest that is stored as Past.
C2_UpsertOfPast ==
    \E r \in DOMAIN fetch :
       /\ fetch[r].pc = "bulk"
       /\ Castable(fetch[r].batch)
       /\ \E k \in 1..Len(fetch[r].batch) : \E i \in Matches(store, fetch[r].batch[k]) :
             store[i].status = "Past"

\* No two records of a collection have the same (name, startTime).
OnePerIdentity(s) ==
    \A i, j \in 1..Len(s) : SameIdentity(s[i], s[j]) => i = j

\* C3: the collection holds at most one record for each (name, startTime), and
\* so does the collection a bulk upsert is about to produce, also when the
\* batch names an identity twice; applying the same batch a second time adds
\* no record.
C3_UpsertIsIdempotent ==
    /\ OnePerIdentity(store)
    /\ \A r \in DOMAIN fetch :
          fetch[r].pc = "bulk" /\ Castable(fetch[r].batch) =>
             LET once == UpsertAll(store, fetch[r].batch)
                 twice == UpsertAll(once, fetch[r].batch)
             IN  OnePerIdentity(once) /\ OnePerIdentity(twice) /\ Len(twice) = Len(once)

\* A batch that names a contest twice is about to be upserted into a
\* collection that already holds that contest from an earlier cycle.
C3_RepeatedIdentity ==
    \E r \in DOMAIN fetch :
       /\ fetch[r].pc = "bulk"
       /\ Castable(fetch[r].batch)
       /\ \E j, k \in 1..Len(fetch[r].batch) :
             /\ j < k
             /\ SameIdentity(fetch[r].batch[j], fetch[r].batch[k])
             /\ Matches(store, fetch[r].batch[k]) # {}

Statuses == {"Upcoming", "On-going", "Past"}

\* A step of scan r itself (a step of another job leaves its position alone).
StepOfScan(r) == life'[r].pc # life[r].pc \/ life'[r].todo # life[r].todo

\* C5: the status a scan stores for a contest is Past when now >= endTime,
\* On-going when startTime <= now < endTime and Upcoming otherwise, with the
\* now the scan captured, and it is the same whatever status the contest had.
C5_TargetStatusIsPure ==
    [][\A r \in DOMAIN life :
          life[r].pc = "status" /\ StepOfScan(r) /\ store' # store =>
             LET doc == Head(life[r].todo)
                 clock == life[r].now
                 written == store'[doc.id].status
             IN  /\ clock >= doc.endTime => written = "Past"
                 /\ doc.startTime <= clock /\ clock < doc.endTime => written = "On-going"
                 /\ clock < doc.startTime => written = "Upcoming"
                 /\ \A st \in Statuses :
                       NewStatus(clock, [doc EXCEPT !.status = st]) = written]_vars

\* A scan has just stored Past for a contest whose endTime is the scan's now.
C5_PastAtEndTime ==
    \E r \in DOMAIN life :
       /\ life[r].pc = "lookup"
       /\ Head(life[r].todo).endTime = life[r].now
       /\ Head(life[r].todo).status = "Past"
       /\ store[Head(life[r].todo).id].status = "Past"

TimesCalled(calls, i) == Cardinality({k \in 1..Len(calls) : calls[k] = i})

\* The step with which scan r returns, and the finder calls the run has made
\* when it does.
ScanReturns(r) == InFlight(life[r].pc) /\ life'[r].pc = "idle"
ScanCalls(r) ==
    IF life[r].pc = "lookup"
    THEN Append(life[r].calls, Head(life[r].todo).id) ELSE life[r].calls

\* C4: when a scan returns and no other job has written the collection since
\* the scan read it, the stored status of every contest is the target status
\* for the scan's now.
C4_StatusFollowsClock ==
    [][\A r \in DOMAIN life :
          ScanReturns(r) /\ (life[r].pc = "find" \/ life[r].clean) =>
             \A i \in 1..Len(store') :
                store'[i].status =
                   TargetStatus(life[r].now, store'[i].startTime, store'[i].endTime)]_vars

\* A scan is about to save the new status of a contest, with another contest
\* that needs a new status still to come.
C4_TwoToUpdate ==
    \E r \in DOMAIN life :
       /\ life[r].pc = "status"
       /\ life[r].clean
       /\ \E k \in 2..Len(life[r].todo) : StatusChanges(life[r].now, life[r].todo[k])

\* C6: when a scan returns, it has called the finder exactly once for every
\* contest it read as not Past with endTime <= now and no solutionUrl, and has
\* stored Past for it; it has called the finder for no other contest.
C6_OneLookupPerTransition ==
    [][\A r \in DOMAIN life :
          ScanReturns(r) /\ life[r].pc # "find" =>
             \A k \in 1..Len(life[r].seen) :
                LET doc == life[r].seen[k]
                IN  IF life[r].now >= doc.endTime /\ doc.solutionUrl = Null
                    THEN /\ TimesCalled(ScanCalls(r), doc.id) = 1
                         /\ life[r].clean => store'[doc.id].status = "Past"
                    ELSE TimesCalled(ScanCalls(r), doc.id) = 0]_vars

\* A scan is awaiting the finder for a contest it has just moved to Past.
C6_LookupAtTransition ==
    \E r \in DOMAIN life :
       /\ life[r].pc = "lookup"
       /\ \E k \in 1..Len(life[r].seen) :
             /\ life[r].seen[k].id = Head(life[r].todo).id
             /\ life[r].seen[k].status # "Past"
             /\ life[r].seen[k].solutionUrl = Null
       /\ store[Head(life[r].todo).id].status = "Past"

StoreIds == 1..(Len(OldStore) + 2)

\* A job is awaiting the finder for the record with this id.
LookingUp(i) ==
    \/ \E r \in DOMAIN life : life[r].pc = "lookup" /\ Head(life[r].todo).id = i
    \/ back.pc = "lookup" /\ Head(back.todo).id = i

BackCalls == IF back.pc = "lookup" THEN Append(back.calls, Head(back.todo).id) ELSE back.calls
BackSeen == IF back.pc = "find" THEN ContestsToBackfill(store) ELSE back.seen

\* C9: when the backfill pass returns it has called the finder exactly once
\* for every contest it read as Past, without solutionUrl and of a trusted
\* platform, and for no other; every video it finds is stored, and a look-up
\* that finds none changes nothing.
C9_BackfillCoversAll ==
    [][/\ InFlight(back.pc) /\ back'.pc = "idle" =>
             \A i \in 1..Len(store) :
                TimesCalled(BackCalls, i) =
                   IF \E k \in 1..Len(BackSeen) : BackSeen[k].id = i THEN 1 ELSE 0
       /\ back.pc = "solution" /\ back' # back =>
             store'[Head(back.todo).id].solutionUrl = Head(back.todo).solutionUrl
       /\ back.pc = "lookup" /\ back' # back => store' = store]_vars

\* The backfill pass is awaiting the finder with another contest still to come.
C9_TwoToBackfill == back.pc = "lookup" /\ Len(back.todo) > 1

Valid(c) == c.startTime # NaN /\ c.endTime # NaN

\* C10: when a fetch cycle ends, every contest with valid times that an
\* adapter returned is in the collection, whatever the other adapters did
\* (unless the store accepted the batch and then failed a write of it).
C10_AdapterFailureIsIsolated ==
    [][\A r \in DOMAIN fetch :
          fetch[r].pc = "bulk" /\ fetch'[r].pc # "bulk" =>
             \/ \A k \in 1..Len(fetch[r].batch) :
                   Valid(fetch[r].batch[k]) => Matches(store', fetch[r].batch[k]) # {}
             \/ Castable(fetch[r].batch) /\ store' # UpsertAll(store, fetch[r].batch)]_vars

\* A cycle is about to write a batch in which one adapter's contest has no
\* valid start time and another adapter's contest is new to the collection.
C10_MixedBatch ==
    \E r \in DOMAIN fetch :
       /\ fetch[r].pc = "bulk"
       /\ \E j, k \in 1..Len(fetch[r].batch) :
             /\ ~Valid(fetch[r].batch[j])
             /\ Valid(fetch[r].batch[k])
             /\ fetch[r].batch[j].platform # fetch[r].batch[k].platform
             /\ Matches(store, fetch[r].batch[k]) = {}

\* The documents after the one in hand that still need a new status or a
\* look-up when scan r takes its step.
ScanLeft(r) == SkipSettled(life[r].now, Tail(life[r].todo))

\* C11: a scan does not return at a contest.save() while a later contest of
\* the set it read still needs a new status or a look-up.
C11_WriteFailureIsSkipped ==
    [][\A r \in DOMAIN life :
          life[r].pc \in {"status", "solution"} /\ ScanReturns(r) =>
             ScanLeft(r) = <<>>]_vars

\* A scan is awaiting a save while a later contest of its set needs a new
\* status.
C11_SaveBeforeOthers ==
    \E r \in DOMAIN life :
       /\ life[r].pc \in {"status", "solution"}
       /\ \E k \in 2..Len(life[r].todo) : StatusChanges(life[r].now, life[r].todo[k])

\* C12: a scan does not return at a finder call while a later contest of the
\* set it read still needs a new status or a look-up, whatever the finder's
\* request met.
C12_FinderNeverRaises ==
    [][\A r \in DOMAIN life :
          life[r].pc = "lookup" /\ ScanReturns(r) => ScanLeft(r) = <<>>]_vars

\* A scan is awaiting the finder while a later contest of its set needs a new
\* status.
C12_LookupBeforeOthers ==
    \E r \in DOMAIN life :
       /\ life[r].pc = "lookup"
       /\ \E k \in 2..Len(life[r].todo) : StatusChanges(life[r].now, life[r].todo[k])

\* ------------------------------------------------- overlapping invocations
\* node-schedule starts a job at its tick whether or not the previous run has
\* returned.  OverlapSpec gives each recurring job a second run, and lets a
\* tick start a run while fewer than MaxInFlight runs are in flight.
TwoRuns == {1, 2}
MaxInFlight == 2

RunsInFlight(st) == Cardinality({r \in DOMAIN st : InFlight(st[r].pc)})
AllInFlight == RunsInFlight(fetch) + RunsInFlight(life) + (IF InFlight(back.pc) THEN 1 ELSE 0)

OverlapInit ==
    /\ phase = "connecting"
    /\ now = 0
    /\ store = DowntimeStore
    /\ fetch = [r \in TwoRuns |-> IdleFetch]
    /\ life = [r \in TwoRuns |-> IdleLife]
    /\ back = IdleBack
    /\ missed = {}
    /\ format = NoCall
    /\ ApiIdle

OverlapNext ==
    \/ ConnectOk
    \/ ConnectFail
    \/ Tick
    \/ AllInFlight < MaxInFlight /\ CronFetch
    \/ AllInFlight < MaxInFlight /\ CronScan
    \/ \E r \in DOMAIN fetch : FetchCodeforces(r)
    \/ \E r \in DOMAIN fetch : FetchLeetCode(r)
    \/ \E r \in DOMAIN fetch : FetchHackerEarth(r)
    \/ \E r \in DOMAIN fetch : FetchTopCoder(r)
    \/ \E r \in DOMAIN fetch : BulkWrite(r)
    \/ \E r \in DOMAIN life : LifeFind(r)
    \/ \E r \in DOMAIN life : LifeSaveStatus(r)
    \/ \E r \in DOMAIN life : LifeLookup(r)
    \/ \E r \in DOMAIN life : LifeSaveSolution(r)
    \/ BackFind
    \/ BackLookup
    \/ BackSaveSolution

OverlapSpec == OverlapInit /\ [][OverlapNext]_vars

\* C13: at no time are two runs of fetchAndStoreContests in flight together,
\* nor two runs of updateContestStatuses.
C13_NoOverlap == RunsInFlight(fetch) <= 1 /\ RunsInFlight(life) <= 1

\* The schedule's tick for the scan arrives while a run of the scan is in
\* flight.
C13_TickDuringScan ==
    /\ phase = "running"
    /\ AllInFlight < MaxInFlight
    /\ RunsInFlight(life) = 1

\* The runs a step starts.
FetchStarts == {r \in DOMAIN fetch : Free(fetch[r].pc) /\ fetch'[r].pc = "cf"}
ScanStarts == {r \in DOMAIN life : Free(life[r].pc) /\ life'[r].pc = "find"}
BackStarts == Free(back.pc) /\ back'.pc = "find"

Listening == phase = "running"

\* No run of any job is in flight.
NoJobInFlight ==
    /\ \A r \in DOMAIN fetch : Free(fetch[r].pc)
    /\ \A r \in DOMAIN life : Free(life[r].pc)
    /\ Free(back.pc)

\* C15: the process exits only from its connection attempt and stays exited;
\* once it has, it is not listening, no run of any job is in flight, neither
\* schedule can start one, and the collection is never written.
C15_ConnectFailureIsFatal ==
    /\ [](phase = "exited" =>
             /\ ~Listening
             /\ NoJobInFlight
             /\ ~ENABLED CronFetch
             /\ ~ENABLED CronScan)
    /\ [][/\ phase' = "exited" => phase \in {"connecting", "exited"}
          /\ phase = "exited" =>
                phase' = "exited" /\ UNCHANGED <<store, fetch, life, back>>
          /\ phase = "connecting" /\ phase' = "exited" =>
                NoJobInFlight /\ UNCHANGED <<store, fetch, life, back>>]_vars

\* The connection has failed on a collection that an earlier life of the
\* process had filled, and time has gone on.
C15_ExitedWithOldStore == phase = "exited" /\ store = OldStore /\ now > 0

\* ------------------------------------------------- the finder's request
\* TLE_ELIMINATORS_CHANNEL_ID, and a request without a channelId parameter.
TleEliminatorsChannelId == "UCfaJ6P3Q60-wGzE0sS1j_ew"
NoChannel == "none"
\* A channel restriction for Codeforces contests only.
OnlyCodeforces == {"Codeforces"}
\* platform === 'Codeforces' || platform === 'LeetCode'
ChannelPlatforms == {"Codeforces", "LeetCode"}

\* A timestamp written out as its calendar day only.
ToISODay(t) == [seconds |-> (t \div 86400000) * 86400, millis |-> 0]

\* new Date(contestEndTime).toISOString(): the instant written out in UTC to
\* the millisecond, here as its whole seconds and its milliseconds; and the
\* instant a reader of that text gets.
ToISOString(t) == [seconds |-> t \div MsPerSecond, millis |-> t % MsPerSecond]
FromISOString(iso) == iso.seconds * MsPerSecond + iso.millis

\* const searchQuery = `"${contestName}" solution editorial`
SearchQuery(contestName) == <<"\"", contestName, "\"", " solution editorial">>

\* The params object of the search request.
SearchParams(contestName, contestEndTime, platform) ==
    [part |-> "snippet",
     q |-> SearchQuery(contestName),
     maxResults |-> 1,
     type |-> "video",
     order |-> "date",
     publishedAfter |-> ToISOString(contestEndTime),
     channelId |-> IF platform \in ChannelPlatforms
                   THEN TleEliminatorsChannelId ELSE NoChannel]

\* findYouTubeSolution(contest.name, contest.endTime, contest.platform)
RequestFor(doc) == SearchParams(doc.name, doc.endTime, doc.platform)

\* The documents for which a job is awaiting the finder.
DocsInLookup ==
    {Head(life[r].todo) : r \in {q \in DOMAIN life : life[q].pc = "lookup"}}
       \cup (IF back.pc = "lookup" THEN {Head(back.todo)} ELSE {})

\* The search the request is sent to, as the API documents it: the videos
\* published at or after publishedAfter, of the channel if one is given, newest
\* first, cut to maxResults.
Video(id, publishedAt, channelId) ==
    [id |-> id, publishedAt |-> publishedAt, channelId |-> channelId]
VideoLibrary ==
    { Video("w1", -2000, TleEliminatorsChannelId), Video("w2", 0, "UCother"),
      Video("w3", 1000, TleEliminatorsChannelId), Video("w4", 2000, "UCother") }

RECURSIVE NewestFirst(_, _)
NewestFirst(videos, n) ==
    IF videos = {} \/ n = 0 THEN <<>>
    ELSE LET v == CHOOSE x \in videos : \A y \in videos : y.publishedAt <= x.publishedAt
         IN  <<v.id>> \o NewestFirst(videos \ {v}, n - 1)

Search(library, params) ==
    NewestFirst({v \in library :
                    /\ v.publishedAt >= FromISOString(params.publishedAfter)
                    /\ params.channelId = NoChannel \/ v.channelId = params.channelId},
                params.maxResults)

\* C16: the request a job sends for a contest that ended at T has
\* publishedAfter equal to T, maxResults 1 and order date; whatever videos
\* exist, the finder then returns none or a video published at or after T.
C16_PublishedAfterEndTime ==
    \A doc \in DocsInLookup :
       LET params == RequestFor(doc)
       IN  /\ FromISOString(params.publishedAfter) = doc.endTime
           /\ params.maxResults = 1
           /\ params.order = "date"
           /\ \A library \in SUBSET VideoLibrary :
                 LET videoId == FindYouTubeSolution(YtItems(Search(library, params)))
                 IN  videoId # Null =>
                        \E v \in library : v.id = videoId /\ v.publishedAt >= doc.endTime

\* A job is awaiting the finder for a contest that ended after one video of the
\* library was published and not after another.
C16_VideosAroundEndTime ==
    \E doc \in DocsInLookup :
       /\ \E v \in VideoLibrary : v.publishedAt < doc.endTime
       /\ Search(VideoLibrary, RequestFor(doc)) # <<>>

Platforms == {"Codeforces", "LeetCode", "HackerEarth", "TopCoder"}

\* C17: the request for a contest carries the trusted channel's id exactly
\* when the contest's platform is Codeforces or LeetCode, and no channelId for
\* every other platform; so for every request a job sends.
C17_ChannelOnlyForTrusted ==
    /\ \A platform \in Platforms : \A doc \in DocsInLookup :
          LET params == SearchParams(doc.name, doc.endTime, platform)
          IN  IF platform \in {"Codeforces", "LeetCode"}
              THEN params.channelId = TleEliminatorsChannelId
              ELSE params.channelId = NoChannel
    /\ \A doc \in DocsInLookup :
          /\ doc.platform \in {"Codeforces", "LeetCode"} =>
                \A library \in SUBSET VideoLibrary :
                   \A v \in library :
                      Search(library, RequestFor(doc)) = <<v.id>> =>
                         v.channelId = TleEliminatorsChannelId
          /\ doc.platform \notin {"Codeforces", "LeetCode"} =>
                RequestFor(doc).channelId = NoChannel

\* The backfill is awaiting the finder for a LeetCode contest while a scan is
\* awaiting it for a HackerEarth contest.
C17_BothKindsInLookup ==
    /\ \E doc \in DocsInLookup : doc.platform = "LeetCode"
    /\ \E doc \in DocsInLookup : doc.platform = "HackerEarth"

\* ------------------------------------------------- the duration formatter
\* The durations handed to formatDuration: nothing, zero, negatives and every
\* whole number of seconds up to two days.
MaxDuration == 172800
DurationInputs ==
    {Arg(FALSE, 0)} \cup {Arg(TRUE, d) : d \in -2..MaxDuration}

\* An adapter maps one upstream item: it calls formatDuration on the item's
\* duration and keeps the text.
Pending(arg) == [called |-> FALSE, arg |-> arg, result |-> <<>>]
CallFormatDuration ==
    /\ ~format.called
    /\ format' = Call(format.arg)
    /\ UNCHANGED <<phase, now, store, fetch, life, back, missed, user, calendar, reply, client>>

FormatInit ==
    /\ phase = "connecting"
    /\ now = 0
    /\ store = <<>>
    /\ fetch = [r \in FRuns |-> IdleFetch]
    /\ life = [r \in LRuns |-> IdleLife]
    /\ back = IdleBack
    /\ missed = {}
    /\ format \in {Pending(arg) : arg \in DurationInputs}
    /\ ApiIdle
FormatSpec == FormatInit /\ [][CallFormatDuration]_vars

\* formatDuration has been called on the whole number d.
Called(d) == format.called /\ format.arg = Arg(TRUE, d)

\* C18: formatDuration returns the empty text for an absent argument and for
\* every d <= 0, "1d 1h" for 90000, "1h" for 3600 and "1m" for 90.
C18_Samples ==
    format.called =>
        /\ (~format.arg.present \/ format.arg.value <= 0) => format.result = <<>>
        /\ Called(90000) => format.result = <<"1", "d", " ", "1", "h">>
        /\ Called(3600) => format.result = <<"1", "h">>
        /\ Called(90) => format.result = <<"1", "m">>
C18_NinetySeconds == Called(90)


\* The shape of a text: whether a character occurs in it, and how often.
Contains(t, c) == \E i \in 1..Len(t) : t[i] = c
Count(t, c) == Cardinality({i \in 1..Len(t) : t[i] = c})

\* C19: for every integer d > 0, when the total hours are >= 24 the result is
\* "{days}d" followed by " {hours}h" exactly when the remainder hours are > 0,
\* and never has a minutes part; when the total hours are < 24 the result is
\* the hours part (omitted if zero) and the minutes part (omitted if zero)
\* joined by one space with no leading or trailing space, and it is the empty
\* text when both are zero.  The hours and the minutes are the whole hours and
\* the whole minutes that d holds.
C19_ShapeRule ==
    format.called /\ format.arg.present /\ format.arg.value > 0 =>
        LET d == format.arg.value
            text == format.result
            days == d \div (HoursPerDay * SecondsPerHour)
            hours == (d % (HoursPerDay * SecondsPerHour)) \div SecondsPerHour
            minutes == (d % SecondsPerHour) \div SecondsPerMinute
            dayPart == Digits(days) \o <<"d">>
        IN  IF days > 0
            THEN /\ Len(text) >= Len(dayPart)
                 /\ SubSeq(text, 1, Len(dayPart)) = dayPart
                 /\ Contains(text, "h") <=> hours > 0
                 /\ Count(text, " ") = (IF hours > 0 THEN 1 ELSE 0)
                 /\ ~Contains(text, "m")
            ELSE /\ Contains(text, "h") <=> hours > 0
                 /\ Contains(text, "m") <=> minutes > 0
                 /\ Count(text, " ") = (IF hours > 0 /\ minutes > 0 THEN 1 ELSE 0)
                 /\ text # <<>> => Head(text) # " " /\ text[Len(text)] # " "
                 /\ ~Contains(text, "d")
                 /\ (hours = 0 /\ minutes = 0) => text = <<>>
C19_HalfMinute == Called(30)


\* ------------------------------------------------- the order of one cycle
\* The adapters of a cycle in the order the code awaits them, and the step
\* that follows each.
AdapterSteps == {"cf", "lc", "he", "tc"}
StepAfter(pc) ==
    CASE pc = "cf" -> {"lc"}
      [] pc = "lc" -> {"he"}
      [] pc = "he" -> {"tc"}
      [] pc = "tc" -> {"bulk", "idle"}
      [] pc = "bulk" -> {"idle"}
      [] OTHER -> {"cf"}
CycleSteps(r) == fetch'[r] # fetch[r]

\* C20: within one fetch cycle the batch upsert happens only after all four
\* adapters have finished; nothing is written to the store while an adapter of
\* the cycle is still running, and the cycle performs at most one bulk write.
C20_WriteAfterAllAdapters ==
    [][\A r \in DOMAIN fetch :
          CycleSteps(r) =>
             /\ fetch'[r].pc \in StepAfter(fetch[r].pc)
             /\ fetch[r].pc \in AdapterSteps \cup {"idle"} => store' = store
             /\ store' # store => fetch[r].pc = "bulk" /\ Free(fetch'[r].pc)]_vars

\* A cycle is about to write a batch that holds contests of three adapters
\* (the fourth returned only contests that have started), and the collection
\* has none of them yet.
C20_BatchOfAllAdapters ==
    \E r \in DOMAIN fetch :
       /\ fetch[r].pc = "bulk"
       /\ {fetch[r].batch[j].platform : j \in 1..Len(fetch[r].batch)}
             = {"Codeforces", "LeetCode", "HackerEarth"}
       /\ \A j \in 1..Len(fetch[r].batch) : Matches(store, fetch[r].batch[j]) = {}


\* ------------------------------------------------- what the saves write
\* The fields of a record that only a fetch cycle sets.
SameAdapterFields(a, b) ==
    /\ a.name = b.name
    /\ a.platform = b.platform
    /\ a.duration = b.duration
    /\ a.startTime = b.startTime
    /\ a.endTime = b.endTime
    /\ a.url = b.url

\* The records selected by the find of a scan or of the backfill pass that is
\* at a save.
SeenIds(docs) == {docs[k].id : k \in 1..Len(docs)}
AtSave(pc) == pc \in {"status", "solution"}
SelectedBySavers ==
    UNION {SeenIds(life[r].seen) : r \in {q \in DOMAIN life : AtSave(life[q].pc)}}
       \cup (IF AtSave(back.pc) THEN SeenIds(back.seen) ELSE {})

\* C21: the lifecycle scan and the backfill pass change only status and
\* solutionUrl: name, platform, duration, startTime, endTime and url of every
\* record are unchanged by their steps, and a record outside the set they
\* selected is not written at all.
C21_SaveWritesStatusAndSolution ==
    [][fetch' = fetch =>
          /\ Len(store') = Len(store)
          /\ \A i \in 1..Len(store) :
                /\ SameAdapterFields(store[i], store'[i])
                /\ store'[i] # store[i] => i \in SelectedBySavers]_vars

\* A scan is about to save a solution while the collection holds a record
\* that its find did not select.
C21_SaveBesideUnselected ==
    \E r \in DOMAIN life :
       /\ life[r].pc = "solution"
       /\ \E i \in 1..Len(store) : i \notin SeenIds(life[r].seen)


\* ------------------------------------------------- degenerate durations
\* An upstream that also lists a contest whose duration is zero or negative,
\* met by a collection that holds one old contest.
UpstreamDurations == {-1, 0}
AnyDurationResponses ==
    LcResponses \cup {Body(TRUE, <<LcItem("Z", 5, d)>>) : d \in UpstreamDurations}

UpstreamInit ==
    /\ phase = "connecting"
    /\ now = 0
    /\ store = SubSeq(OldStore, 1, 1)
    /\ fetch = [r \in FRuns |-> IdleFetch]
    /\ life = [r \in LRuns |-> IdleLife]
    /\ back = IdleBack
    /\ missed = {}
    /\ format = NoCall
    /\ ApiIdle

UpstreamNext ==
    \/ ConnectOk
    \/ ConnectFail
    \/ Tick
    \/ CronFetch
    \/ CronScan
    \/ \E r \in DOMAIN fetch : FetchCodeforces(r)
    \/ \E r \in DOMAIN fetch : FetchLeetCodeFrom(r, AnyDurationResponses)
    \/ \E r \in DOMAIN fetch : FetchHackerEarth(r)
    \/ \E r \in DOMAIN fetch : FetchTopCoder(r)
    \/ \E r \in DOMAIN fetch : BulkWrite(r)
    \/ \E r \in DOMAIN life : LifeFind(r)
    \/ \E r \in DOMAIN life : LifeSaveStatus(r)
    \/ \E r \in DOMAIN life : LifeLookup(r)
    \/ \E r \in DOMAIN life : LifeSaveSolution(r)
    \/ BackFind
    \/ BackLookup
    \/ BackSaveSolution

UpstreamSpec == UpstreamInit /\ [][UpstreamNext]_vars

\* C22: every stored contest has endTime > startTime, whatever the adapters
\* received from upstream.
C22_EndAfterStart ==
    \A i \in 1..Len(store) : store[i].endTime > store[i].startTime

\* A cycle is about to write a contest whose upstream duration is not positive.
C22_DegenerateInBatch ==
    \E r \in DOMAIN fetch :
       /\ fetch[r].pc = "bulk"
       /\ Castable(fetch[r].batch)
       /\ \E j \in 1..Len(fetch[r].batch) :
             fetch[r].batch[j].endTime <= fetch[r].batch[j].startTime


\* C23: the pipeline never deletes a contest: in every step of a fetch cycle,
\* a lifecycle scan or the backfill pass every record of the collection stays,
\* under its _id and with its (name, startTime), and the number of records
\* does not decrease.
C23_NothingIsDeleted ==
    [][/\ Len(store') >= Len(store)
       /\ \A i \in 1..Len(store) : SameIdentity(store[i], store'[i])]_vars

\* A cycle is about to write a batch that has a contest the collection holds
\* and a contest it does not hold, beside records that no adapter returns.
C23_UpsertBesideOld ==
    \E r \in DOMAIN fetch :
       /\ fetch[r].pc = "bulk"
       /\ Castable(fetch[r].batch)
       /\ \E j, k \in 1..Len(fetch[r].batch) :
             /\ Matches(store, fetch[r].batch[j]) # {}
             /\ Matches(store, fetch[r].batch[k]) = {}
       /\ \E i \in 1..Len(store) :
             \A j \in 1..Len(fetch[r].batch) : ~SameIdentity(store[i], fetch[r].batch[j])


\* ------------------------------------------------------- the API routes
\* The requests that ApiSpec follows: the caller has a session or not.
MaxEvents == 2
ExpiringUser == User(<<>>, "access-1", "refresh-1", EagerRefreshThreshold)
SoonExpiringUser ==
    User(<<>>, "access-1", "refresh-1", EagerRefreshThreshold + MsPerSecond)

\* The catch block of POST /api/calendar-event.
CalendarFailure(cause) ==
    Reply("calendar", 500, "Failed to create calendar event.", <<>>, cause)

\* POST /api/calendar-event for one stored contest: getAuthorizedClient, then
\* calendar.events.insert with the client it returned.
PostCalendarEvent ==
    /\ phase = "running"
    /\ Len(calendar) < MaxEvents
    /\ \E loggedIn \in BOOLEAN, i \in 1..Len(store),
          refresh \in {"ok", "rejected", "not saved"}, insert \in {"ok", "rejected"} :
         IF ~loggedIn
         THEN /\ reply' = Reply("calendar", 401, "Not authenticated.", <<>>, "session")
              /\ UNCHANGED <<user, calendar>>
         ELSE IF IsTokenExpiring(Credentials(user), now) /\ refresh # "ok"
         THEN \* refreshAccessToken or findByIdAndUpdate rejected: the catch
              \* block throws 'Could not refresh access token.'
              /\ reply' = CalendarFailure("refresh")
              /\ UNCHANGED <<user, calendar>>
         ELSE LET credentials ==
                     IF IsTokenExpiring(Credentials(user), now)
                     THEN Refreshed(user, now) ELSE Credentials(user)
              IN  /\ user' = [user EXCEPT !.accessToken = credentials.access_token,
                                           !.tokenExpires = credentials.expiry_date]
                  /\ IF insert = "ok"
                     THEN /\ calendar' = Append(calendar,
                                [summary |-> store[i].name,
                                 access_token |-> credentials.access_token])
                          /\ reply' = Reply("calendar", 200,
                                "Event created successfully!", <<>>, "none")
                     ELSE /\ calendar' = calendar
                          /\ reply' = CalendarFailure("insert")
    /\ UNCHANGED <<phase, now, store, fetch, life, back, missed, format, client>>


\* Array.prototype.sort with (a, b) => new Date(a.startTime) - new Date(b.startTime):
\* ascending, and stable.
RECURSIVE InsertByStartTime(_, _)
InsertByStartTime(sorted, x) ==
    IF sorted = <<>> THEN <<x>>
    ELSE IF Head(sorted).startTime <= x.startTime
    THEN <<Head(sorted)>> \o InsertByStartTime(Tail(sorted), x)
    ELSE <<x>> \o sorted
\* A response in the order of the collection.
StoredOrder(list) == list

RECURSIVE SortByStartTime(_)
SortByStartTime(list) ==
    IF list = <<>> THEN <<>>
    ELSE InsertByStartTime(SortByStartTime(SubSeq(list, 1, Len(list) - 1)), list[Len(list)])

\* The ids in savedContests, as the Set of the handler.
SavedContestIds(loggedIn) ==
    IF loggedIn THEN {user.savedContests[k] : k \in 1..Len(user.savedContests)} ELSE {}

\* { ...c, saved: savedContestIds.has(c._id.toString()) }; displayStartTime, a
\* text made from startTime alone, is left out.
Listed(s, i, saved) ==
    [id |-> i, name |-> s[i].name, platform |-> s[i].platform,
     startTime |-> s[i].startTime, endTime |-> s[i].endTime,
     status |-> s[i].status, solutionUrl |-> s[i].solutionUrl, saved |-> saved]
FormattedContests(s, savedIds) ==
    SortByStartTime([i \in 1..Len(s) |-> Listed(s, i, i \in savedIds)])

\* GET /api/contests
GetContests ==
    /\ phase = "running"
    /\ \E loggedIn \in BOOLEAN, find \in {"ok", "rejected"} :
         reply' = IF find = "ok"
                  THEN Reply("contests", 200, "",
                             FormattedContests(store, SavedContestIds(loggedIn)),
                             IF loggedIn THEN "user" ELSE "anonymous")
                  ELSE Reply("contests", 500, "Error fetching contests", <<>>, "find")
    /\ UNCHANGED <<user, calendar>>
    /\ UNCHANGED <<phase, now, store, fetch, life, back, missed, format, client>>

\* An array push in place of addToSet.
Push(arr, id) == Append(arr, id)

\* MongooseArray.addToSet(id) and MongooseArray.pull(id)
AddToSet(arr, id) ==
    IF \E k \in 1..Len(arr) : arr[k] = id THEN arr ELSE Append(arr, id)
Pull(arr, id) ==
    LET Other(x) == x # id IN SelectSeq(arr, Other)

\* The handler of PATCH /api/contests/:id with body { saved }, for a request
\* with or without a session and a user.save() that resolves or rejects.
Patch(loggedIn, id, saved, save) ==
    IF ~loggedIn
    THEN /\ reply' = About(id, Reply("bookmark", 401,
                "You must be logged in to save contests.", <<>>, "session"))
         /\ user' = user
    ELSE IF save = "ok"
    THEN /\ user' = [user EXCEPT !.savedContests =
                         IF saved THEN AddToSet(@, id) ELSE Pull(@, id)]
         /\ reply' = About(id, Reply("bookmark", 200, "", <<>>,
                           IF saved THEN "added" ELSE "pulled"))
    ELSE /\ user' = user
         /\ reply' = About(id, Reply("bookmark", 500,
                           "Error updating bookmarks", <<>>, "save"))

\* PATCH /api/contests/:id
PatchContest ==
    /\ phase = "running"
    /\ \E loggedIn \in BOOLEAN, id \in 1..(Len(store) + 1), saved \in BOOLEAN,
          save \in {"ok", "rejected"} :
         Patch(loggedIn, id, saved, save)
    /\ UNCHANGED calendar
    /\ UNCHANGED <<phase, now, store, fetch, life, back, missed, format, client>>

\* The server is listening, the jobs are idle, and the requests come in any
\* order while time passes.
ApiStores == {<<>>, DowntimeStore, <<DowntimeStore[2], OldStore[1], DowntimeStore[1]>>}
ApiInit ==
    /\ phase = "running"
    /\ now = 0
    /\ store \in ApiStores
    /\ fetch = [r \in FRuns |-> IdleFetch]
    /\ life = [r \in LRuns |-> IdleLife]
    /\ back = IdleBack
    /\ missed = {}
    /\ format = NoCall
    /\ user \in {FreshUser, ExpiringUser, SoonExpiringUser}
    /\ calendar = <<>>
    /\ reply = NoReply
    /\ client = NoClient
ApiNext ==
    \/ Tick
    \/ GetContests
    \/ PatchContest
    \/ PostCalendarEvent
ApiSpec == ApiInit /\ [][ApiNext]_vars


\* What the caller of a route can tell apart: the status and the message.
Seen(r) == <<r.status, r.message>>

\* C24: when refreshing an expired access token fails, the caller gets a
\* condition that differs from the one of other calendar-event failures, no
\* event is created with the stale token, and the stored tokens are unchanged.
C24_RefreshFailureIsDistinct ==
    [][reply'.route = "calendar" /\ reply'.cause = "refresh" =>
          /\ Seen(reply') # Seen(CalendarFailure("insert"))
          /\ calendar' = calendar
          /\ user' = user]_vars

\* The refresh of an expiring token has just failed, in an account that has
\* created an event before.
C24_RefreshFailed ==
    /\ reply.route = "calendar"
    /\ reply.cause = "refresh"
    /\ IsTokenExpiring(Credentials(user), now)
    /\ calendar # <<>>


\* C25: GET /api/contests returns every stored contest exactly once, in
\* ascending order of startTime, each with saved = true exactly when the
\* requesting user is logged in and the contest is in the user's savedContests.
C25_ListIsCompleteSortedAndFlagged ==
    reply.route = "contests" /\ reply.status = 200 =>
        LET list == reply.contests
        IN  /\ Len(list) = Len(store)
            /\ \A i \in 1..Len(store) :
                  Cardinality({k \in 1..Len(list) : list[k].id = i}) = 1
            /\ \A k \in 1..Len(list) :
                  /\ list[k].name = store[list[k].id].name
                  /\ list[k].startTime = store[list[k].id].startTime
                  /\ list[k].saved <=>
                        /\ reply.cause = "user"
                        /\ \E j \in 1..Len(user.savedContests) :
                              user.savedContests[j] = list[k].id
            /\ \A j, k \in 1..Len(list) :
                  j < k => list[j].startTime <= list[k].startTime

\* A logged-in user who saved one of several contests has listed a collection
\* that is not stored in the order of its start times.
C25_UnsortedStoreListed ==
    /\ reply.route = "contests"
    /\ reply.status = 200
    /\ reply.cause = "user"
    /\ \E j, k \in 1..Len(store) : j < k /\ store[j].startTime > store[k].startTime
    /\ \E j, k \in 1..Len(reply.contests) :
          reply.contests[j].saved /\ ~reply.contests[k].saved


\* ------------------------------------------------- the scan beside the backfill
\* The records for which a run has issued a finder call, answered or not.
IssuedBy(calls) == {calls[k] : k \in 1..Len(calls)}

\* C26: when the lifecycle scan and the backfill pass run concurrently, no
\* contest receives a Solution Finder call from both of them.
C26_NoLookupByBoth ==
    \A r \in DOMAIN life : IssuedBy(ScanCalls(r)) \cap IssuedBy(BackCalls) = {}

\* The scan and the backfill pass are awaiting the finder at the same time.
C26_BothLookingUp ==
    back.pc = "lookup" /\ \E r \in DOMAIN life : life[r].pc = "lookup"


\* C27: over any sequence of fetch cycles and lifecycle scans, the scan calls
\* the finder for a given contest in at most one scan: a scan never awaits the
\* finder for a contest that an earlier scan call has already missed.
C27_OneScanPerContest ==
    \A r \in DOMAIN life :
       life[r].pc = "lookup" => Head(life[r].todo).id \notin missed

\* A cycle is about to write again a contest whose look-up a scan has missed.
C27_MissedInBatch ==
    \E r \in DOMAIN fetch :
       /\ fetch[r].pc = "bulk"
       /\ Castable(fetch[r].batch)
       /\ \E i \in missed : \E j \in 1..Len(fetch[r].batch) :
             /\ store[i].status = "Past"
             /\ SameIdentity(store[i], fetch[r].batch[j])


\* ------------------------------------------------- the printed components
\* The parts of a text that a space separates.
RECURSIVE PartsOf(_)
PartsOf(text) ==
    IF ~Contains(text, " ") THEN (IF text = <<>> THEN {} ELSE {text})
    ELSE LET at == CHOOSE k \in 1..Len(text) :
                      text[k] = " " /\ \A j \in 1..(k - 1) : text[j] # " "
         IN  (IF at = 1 THEN {} ELSE {SubSeq(text, 1, at - 1)})
                \cup PartsOf(SubSeq(text, at + 1, Len(text)))
\* The part prints a number from lo to hi, followed by the unit.
PrintsWithin(part, unit, lo, hi) == \E n \in lo..hi : part = Digits(n) \o <<unit>>

\* C28: for every integer d > 0 a printed minutes value is between 1 and 59,
\* and in the days form a printed hours value is between 1 and 23.
C28_ComponentsInRange ==
    format.called /\ format.arg.present /\ format.arg.value > 0 =>
        \A part \in PartsOf(format.result) :
           /\ part[Len(part)] = "m" => PrintsWithin(part, "m", 1, 59)
           /\ (part[Len(part)] = "h" /\ Contains(format.result, "d"))
                 => PrintsWithin(part, "h", 1, 23)

\* formatDuration has been called on one second less than an hour.
C28_AlmostAnHour == Called(SecondsPerHour - 1)


\* C29: a fetch upsert that matches an existing record leaves the record's
\* solutionUrl unchanged, and a record inserted by upsert starts with
\* solutionUrl unset.
C29_UpsertKeepsSolution ==
    [][\A r \in DOMAIN fetch :
          fetch[r].pc = "bulk" /\ CycleSteps(r) =>
             /\ \A i \in 1..Len(store) : store'[i].solutionUrl = store[i].solutionUrl
             /\ \A i \in (Len(store) + 1)..Len(store') : store'[i].solutionUrl = Null]_vars

\* A cycle is about to write a batch with a contest whose stored record has a
\* solution and a contest that is new to the collection.
C29_UpsertOfSolved ==
    \E r \in DOMAIN fetch :
       /\ fetch[r].pc = "bulk"
       /\ Castable(fetch[r].batch)
       /\ \E j, k \in 1..Len(fetch[r].batch) :
             /\ \E i \in Matches(store, fetch[r].batch[j]) : store[i].solutionUrl # Null
             /\ Matches(store, fetch[r].batch[k]) = {}


\* C30: bookmark toggling has set semantics: after PATCH with saved = true the
\* contest is in savedContests exactly once, however often it is repeated;
\* after saved = false it is absent; the other entries are unchanged; and a
\* request without a logged-in user gets 401 and changes no state.
C30_BookmarkIsASet ==
    /\ [](reply.route = "bookmark" /\ reply.status = 200 =>
             /\ reply.cause = "added" => Count(user.savedContests, reply.about) = 1
             /\ reply.cause = "pulled" => Count(user.savedContests, reply.about) = 0)
    /\ [][reply'.route = "bookmark" =>
             /\ Pull(user'.savedContests, reply'.about)
                   = Pull(user.savedContests, reply'.about)
             /\ reply'.cause = "session" =>
                   /\ reply'.status = 401
                   /\ UNCHANGED <<user, calendar, store>>]_vars

\* A logged-in user has saved again a contest that was saved before another.
C30_SavedAgain ==
    /\ reply.route = "bookmark"
    /\ reply.status = 200
    /\ reply.cause = "added"
    /\ Len(user.savedContests) > 1
    /\ user.savedContests[1] = reply.about


\* ------------------------------------------------------------- the page
\* The effect's fetchData: GET /api/user sets user when it answers 200, and
\* GET /api/contests sets allContests, or the error when it does not answer 200.
ClientFetchData ==
    /\ phase = "running"
    /\ \E loggedIn \in BOOLEAN, find \in {"ok", "rejected"} :
         LET list == FormattedContests(store, SavedContestIds(loggedIn))
         IN  IF find = "ok"
             THEN /\ reply' = Reply("contests", 200, "", list,
                                    IF loggedIn THEN "user" ELSE "anonymous")
                  /\ client' = Client(loggedIn, list, "none", NoToggle)
             ELSE /\ reply' = Reply("contests", 500, "Error fetching contests", <<>>, "find")
                  /\ client' = Client(loggedIn, <<>>, "Failed to fetch", NoToggle)
    /\ UNCHANGED <<user, calendar>>
    /\ UNCHANGED <<phase, now, store, fetch, life, back, missed, format>>

\* handleToggleSave(contest._id, !contest.saved) for a card of the list, with
\* the PATCH handler's run between the fetch and its answer.  fetch resolves
\* with whatever status the server answers, and rejects when the server is not
\* reached or its answer is lost.
HandleToggleSave ==
    /\ phase = "running"
    /\ \E k \in 1..Len(client.allContests), session \in BOOLEAN,
          save \in {"ok", "rejected"}, network \in {"ok", "unreachable", "answer lost"} :
         LET contestId == client.allContests[k].id
             newSavedStatus == ~client.allContests[k].saved
             originalContests == client.allContests
             updated == [originalContests EXCEPT ![k].saved = newSavedStatus]
             restored(status) ==
                 Client(TRUE, originalContests, "Failed to update bookmark.",
                        Toggle(contestId, newSavedStatus, originalContests, "failed", status))
         IN  IF ~client.user
             THEN /\ client' = [client EXCEPT
                                   !.notification = "Please log in to save contests."]
                  /\ UNCHANGED <<user, reply>>
             ELSE IF network = "unreachable"
             THEN /\ client' = restored(0)
                  /\ UNCHANGED <<user, reply>>
             ELSE /\ Patch(session, contestId, newSavedStatus, save)
                  /\ client' =
                        IF network = "answer lost" THEN restored(0)
                        ELSE Client(TRUE, updated,
                                    IF newSavedStatus THEN "Contest saved!"
                                    ELSE "Removed from bookmarks.",
                                    Toggle(contestId, newSavedStatus, originalContests,
                                           "answered", reply'.status))
    /\ UNCHANGED calendar
    /\ UNCHANGED <<phase, now, store, fetch, life, back, missed, format>>

ClientNext ==
    \/ ClientFetchData
    \/ HandleToggleSave
ClientSpec == ApiInit /\ [][ClientNext]_vars

\* The saved flag the page shows for a contest, and whether the account has
\* the contest saved.
Shown(id) == \E k \in 1..Len(client.allContests) :
                client.allContests[k].id = id /\ client.allContests[k].saved
Persisted(id) == \E j \in 1..Len(user.savedContests) : user.savedContests[j] = id

\* C31: after a toggle's request has finished, the page shows the new value
\* only if the server persisted the change; when the server answered 401 or
\* 500, or the request failed, the page's list is the list before the toggle.
C31_ToggleEndsConsistent ==
    client.toggle.ended # "none" =>
        LET t == client.toggle
        IN  /\ (Shown(t.id) <=> t.saved) =>
                  /\ t.ended = "answered" /\ t.status = 200
                  /\ Persisted(t.id) <=> t.saved
            /\ (t.ended = "failed" \/ t.status \in {401, 500}) =>
                  client.allContests = t.before

\* The page of a logged-in user has toggled a contest and the server, for
\* which the session has ended, answered 401.
C31_ToggleRefused ==
    /\ client.user
    /\ client.toggle.ended = "answered"
    /\ client.toggle.status = 401
    /\ reply.route = "bookmark"

====
